---------------------------- MODULE Spec2Model ----------------------------
(***************************************************************************)
(* Model of redel (src/redel.go, lines 16-287): replacement of the bytes   *)
(* found between pairs of byte delimiters, driven by a bufio.Scanner whose *)
(* split function is ScanByDelimiters.                                     *)
(*                                                                         *)
(* A byte is a one-character string, a byte slice a sequence of bytes.     *)
(* Offsets are 0-based as in Go: s[lo:hi] is Slice(s, lo, hi).             *)
(***************************************************************************)
EXTENDS Integers, Sequences, FiniteSets, TLC

VARIABLES
    rd,                     \* the Redel instance: Reader (bytes of the source), Delimiters, eof
    rpos,                   \* number of bytes the Reader has delivered so far
    args,                   \* the public operation called and the arguments it passes on
    scanner,                \* bufio.Scanner: buf, start, end, err
    valuesData,             \* []replacementData captured by ScanByDelimiters
    hasStartPrevDelimiter,  \* delimiter-stripping sub-state
    previousDelimiter,      \* delimiter-stripping sub-state
    sink,                   \* calls of replacementMapFunc so far: <<[data, atEOF]>>
    calls,                  \* calls of the caller's keep / transform callback so far
    tokens,                 \* history: the tokens scanner.Bytes() returned
    appended,               \* history: the bytes appended to each token
    located,                \* history: the matches ScanByDelimiters returned
    stripped,               \* history: the delimiter tokens removed from chunks
    pc,                     \* "scan", "read", "done", "panic"
    run,                    \* 1, or 2 for a run over the output of a first run
    other                   \* <<>>, or the variables of a second call that waits for its turn

vars == <<rd, rpos, args, scanner, valuesData, hasStartPrevDelimiter,
          previousDelimiter, sink, calls, tokens, appended, located, stripped, pc,
          run, other>>

-----------------------------------------------------------------------------
(* Bounds of the model. *)

\* longest input stream
MaxLen == 5

\* bufio's startBufSize (4096) and MaxScanTokenSize (64 * 1024), scaled down
StartBufSize == 4
MaxScanTokenSize == 8

-----------------------------------------------------------------------------
(* Go's bytes package, as far as redel uses it. *)

Min(S) == CHOOSE x \in S : \A y \in S : x <= y

\* s[lo:hi]
Slice(s, lo, hi) == SubSeq(s, lo + 1, hi)

\* bytes.Index: the offset of the first sep in s, -1 if there is none (the
\* arguments are bound to their values once, whatever the calling context)
Index(s, sep) ==
    LET first(t, p) ==
            LET hits == { i \in 0..(Len(t) - Len(p)) : Slice(t, i, i + Len(p)) = p }
            IN  IF hits = {} THEN -1 ELSE Min(hits)
    IN  CHOOSE i \in { first(t, p) : t \in {s}, p \in {sep} } : TRUE

HasPrefix(s, prefix) ==
    Len(s) >= Len(prefix) /\ Slice(s, 0, Len(prefix)) = prefix

HasSuffix(s, suffix) ==
    Len(s) >= Len(suffix) /\ Slice(s, Len(s) - Len(suffix), Len(s)) = suffix

\* bytes.Replace(s, old, new, 1); an empty old matches at offset 0
Replace1(s, old, new) ==
    LET i == Index(s, old)
    IN  IF i < 0 THEN s
        ELSE Slice(s, 0, i) \o new \o Slice(s, i + Len(old), Len(s))

\* bytes.Split(s, sep)[0] for a non-empty sep
SplitFirst(s, sep) ==
    LET i == Index(s, sep)
    IN  IF i < 0 THEN s ELSE Slice(s, 0, i)

\* make([]byte, n)
Zeros(n) == [i \in 1..n |-> "0"]

-----------------------------------------------------------------------------
(* Types of redel.go. *)

Delimiter(s, e) == [Start |-> s, End |-> e]

\* the zero value of Delimiter (var replacementData replacementData)
NoDelimiter == Delimiter(<<>>, <<>>)

\* getEOFToken: 7 bytes from crypto/rand; here 7 bytes no input holds
getEOFToken == <<"e1", "e2", "e3", "e4", "e5", "e6", "e7">>

\* a []byte of the scanner's buffer (val := data[x1:x2]) shares the buffer's
\* memory: while live it reads buf[lo:hi]; once the buffer is reallocated it
\* keeps the bytes of the array it was cut from
replacementData(del, lo, hi) ==
    [delimiter |-> del, lo |-> lo, hi |-> hi, live |-> TRUE, value |-> <<>>]

ValueOf(buf, e) == IF e.live THEN Slice(buf, e.lo, e.hi) ELSE e.value

-----------------------------------------------------------------------------
(* The caller's callbacks: a few closures like those of redel_test.go. *)

\* FilterValueFunc
Keep(cb, matchValue) ==
    CASE cb = "true"  -> TRUE
      [] cb = "false" -> FALSE
      [] cb = "isA"   -> matchValue = <<"a">>

\* FilterValueReplaceFunc
Transform(cb, matchValue) ==
    CASE cb = "same"    -> matchValue
      [] cb = "custom"  -> <<"X">>
      [] cb = "customA" -> IF matchValue = <<"a">> THEN <<"X">> ELSE matchValue

KeepCallbacks == {"true", "false", "isA"}
TransformCallbacks == {"same", "custom", "customA"}

\* Replace, ReplaceFilter and ReplaceFilterWith: what each hands to replaceFilterFunc
Replace(replacement) ==
    [api |-> "Replace", callback |-> "none", preserveDelimiters |-> FALSE,
     replaceWith |-> FALSE, replacement |-> replacement]

ReplaceFilter(replacement, filterFunc, preserveDelimiters) ==
    [api |-> "ReplaceFilter", callback |-> filterFunc,
     preserveDelimiters |-> preserveDelimiters,
     replaceWith |-> FALSE, replacement |-> replacement]

ReplaceFilterWith(filterReplaceFunc, preserveDelimiters) ==
    [api |-> "ReplaceFilterWith", callback |-> filterReplaceFunc,
     preserveDelimiters |-> preserveDelimiters,
     replaceWith |-> TRUE, replacement |-> <<>>]

\* the filterFunc closures with ReplaceFilter's answer turned round
filterFuncNotOk(a, value) ==
    CASE a.api = "Replace"           -> value
      [] a.api = "ReplaceFilter"     -> IF Keep(a.callback, value) THEN <<>> ELSE <<"1">>
      [] a.api = "ReplaceFilterWith" -> Transform(a.callback, value)

\* the filterFunc replaceFilterFunc receives
filterFunc(a, value) ==
    CASE a.api = "Replace"           -> value
      [] a.api = "ReplaceFilter"     -> IF Keep(a.callback, value) THEN <<"1">> ELSE <<>>
      [] a.api = "ReplaceFilterWith" -> Transform(a.callback, value)

\* whether filterFunc runs the caller's callback
CallsBack(a) == a.api # "Replace"

-----------------------------------------------------------------------------
(* ScanByDelimiters, the split function. *)

\* the loop over delimiters with End searched in the whole window
CandidateEndAnywhere(data, del) ==
    LET from == Index(data, del.Start)
        to   == IF from >= 0 THEN Index(data, del.End) ELSE -1
    IN  [found      |-> Len(del.Start) > 0 /\ Len(del.End) > 0 /\ from >= 0 /\ to >= 0,
         delimiter  |-> del,
         from       |-> from,
         startIndex |-> from + Len(del.Start),
         endIndex   |-> to]

\* the loop over delimiters with End searched from the end of the window
CandidateToLastEnd(data, del) ==
    LET startLen == Len(del.Start)
        endLen   == Len(del.End)
        from     == Index(data, del.Start)
        ends     == { i \in from..(Len(data) - endLen) : Slice(data, i, i + endLen) = del.End }
        to       == IF from >= 0 /\ ends # {}
                    THEN (CHOOSE i \in ends : \A j \in ends : j <= i) - from ELSE -1
    IN  [found      |-> startLen > 0 /\ endLen > 0 /\ from >= 0 /\ to >= 0,
         delimiter  |-> del,
         from       |-> from,
         startIndex |-> from + startLen,
         endIndex   |-> from + to]

\* the loop over delimiters without its test of startLen and endLen
CandidateOfAnyLength(data, del) ==
    LET from == Index(data, del.Start)
        to   == IF from >= 0 THEN Index(Slice(data, from, Len(data)), del.End) ELSE -1
    IN  [found      |-> from >= 0 /\ to >= 0,
         delimiter  |-> del,
         from       |-> from,
         startIndex |-> from + Len(del.Start),
         endIndex   |-> from + to]

\* one pass of the loop over delimiters for del: the candidate, if any
Candidate(data, del) ==
    LET startLen == Len(del.Start)
        endLen   == Len(del.End)
        from     == Index(data, del.Start)
        to       == IF from >= 0 THEN Index(Slice(data, from, Len(data)), del.End) ELSE -1
        x1       == from + startLen
        x2       == from + endLen + (to - endLen)
    IN  [found      |-> startLen > 0 /\ endLen > 0 /\ from >= 0 /\ to >= 0,
         delimiter  |-> del,
         from       |-> from,
         startIndex |-> x1,
         endIndex   |-> x2]

\* data[x1:x2] panics (slice bounds out of range) when x1 > x2
SliceFault(data, delimiters) ==
    \E i \in 1..Len(delimiters) :
        LET c == Candidate(data, delimiters[i])
        IN  c.found /\ c.startIndex > c.endIndex

RECURSIVE earlyDelimiters(_, _, _)
earlyDelimiters(data, delimiters, i) ==
    IF i > Len(delimiters) THEN <<>>
    ELSE LET c == Candidate(data, delimiters[i])
         IN  (IF c.found THEN <<c>> ELSE <<>>) \o earlyDelimiters(data, delimiters, i + 1)

\* "Determine the closer delimiter"
closerDelimiter(early) ==
    LET pick[i \in 1..Len(early)] ==
            IF i = 1 \/ early[i].startIndex < pick[i - 1].startIndex
            THEN early[i] ELSE pick[i - 1]
    IN  pick[Len(early)]

\* the split function with the advance of a match going past the end delimiter
ScanPastEndDelimiter(data, atEOF, delimiters, eof) ==
    LET early == earlyDelimiters(data, delimiters, 1)
    IN  IF atEOF /\ Len(data) = 0 THEN
            [kind |-> "nil", advance |-> 0, token |-> <<>>]
        ELSE IF SliceFault(data, delimiters) THEN
            [kind |-> "panic", advance |-> 0, token |-> <<>>]
        ELSE IF Len(early) > 0 THEN
            LET closer == closerDelimiter(early)
            IN  [kind |-> "match",
                 advance |-> closer.endIndex + Len(closer.delimiter.End),
                 token |-> Slice(data, 0, closer.startIndex),
                 closer |-> closer, early |-> early]
        ELSE IF atEOF /\ Len(data) > 0 THEN
            [kind |-> "drain", advance |-> Len(data), token |-> data \o eof]
        ELSE
            [kind |-> "nil", advance |-> 0, token |-> <<>>]

\* the split function's result; kind "nil" stands for (0, nil, nil)
ScanByDelimiters(data, atEOF, delimiters, eof) ==
    LET early == earlyDelimiters(data, delimiters, 1)
    IN  IF atEOF /\ Len(data) = 0 THEN
            [kind |-> "nil", advance |-> 0, token |-> <<>>]
        ELSE IF SliceFault(data, delimiters) THEN
            [kind |-> "panic", advance |-> 0, token |-> <<>>]
        ELSE IF Len(early) > 0 THEN
            LET closer == closerDelimiter(early)
            IN  [kind |-> "match", advance |-> closer.endIndex,
                 token |-> Slice(data, 0, closer.startIndex),
                 closer |-> closer, early |-> early]
        ELSE IF atEOF /\ Len(data) > 0 THEN
            [kind |-> "drain", advance |-> Len(data), token |-> data \o eof]
        ELSE
            [kind |-> "nil", advance |-> 0, token |-> <<>>]

-----------------------------------------------------------------------------
(* The body of the loop over scanner.Scan(). *)

\* "Remove delimiters only if preserveDelimiters is false": the three
\* bytes.Replace calls, each under its own condition; rm lists the calls made
removeDelimiters(bytesR, delimiterData, has, prev) ==
    LET first  == ~has /\ HasSuffix(bytesR, delimiterData.Start)
        b1     == IF first THEN Replace1(bytesR, delimiterData.Start, <<>>) ELSE bytesR
        prev1  == IF first THEN delimiterData ELSE prev
        has1   == has \/ first
        rm1    == IF first THEN <<[side |-> "Start", pair |-> delimiterData]>> ELSE <<>>
        hasPrevEndDelimiter == has1 /\ HasPrefix(b1, prev1.End)
        b2     == IF hasPrevEndDelimiter THEN Replace1(b1, prev1.End, <<>>) ELSE b1
        prev2  == IF hasPrevEndDelimiter THEN delimiterData ELSE prev1
        rm2    == IF hasPrevEndDelimiter THEN <<[side |-> "End", pair |-> prev1]>> ELSE <<>>
        next   == hasPrevEndDelimiter /\ HasSuffix(b2, delimiterData.Start)
        b3     == IF next THEN Replace1(b2, delimiterData.Start, <<>>) ELSE b2
        rm3    == IF next THEN <<[side |-> "Start", pair |-> delimiterData]>> ELSE <<>>
    IN  [bytesR |-> b3, hasStartPrevDelimiter |-> has1, previousDelimiter |-> prev2,
         rm |-> rm1 \o rm2 \o rm3]

\* "Last process to append or not values or replacements": the bytes appended
appendValue(a, valueCurrent, valueToReplace) ==
    IF a.replaceWith THEN valueToReplace
    ELSE IF Len(valueToReplace) = 0 THEN valueCurrent
    ELSE a.replacement

\* one pass of the loop for the token scanner.Bytes(); values is valuesData
\* and buf the buffer as the split function left them
loopBody(token, values, buf, a, eof, has, prev) ==
    LET atEOF           == HasSuffix(token, eof)
        valueCurrentLen == Len(values) - 1
        hasValue        == valueCurrentLen >= 0
        valueCurrent    == IF hasValue THEN ValueOf(buf, values[valueCurrentLen + 1]) ELSE <<>>
        valueToReplace  == IF hasValue THEN filterFunc(a, valueCurrent) ELSE <<>>
        delimiterData   == IF hasValue THEN values[valueCurrentLen + 1].delimiter ELSE NoDelimiter
        rem == IF ~a.preserveDelimiters
               THEN removeDelimiters(token, delimiterData, has, prev)
               ELSE [bytesR |-> token, hasStartPrevDelimiter |-> has,
                     previousDelimiter |-> prev, rm |-> <<>>]
        add == IF atEOF THEN <<>> ELSE appendValue(a, valueCurrent, valueToReplace)
    IN  [data   |-> IF atEOF THEN SplitFirst(rem.bytesR, eof) ELSE rem.bytesR \o add,
         atEOF  |-> atEOF,
         token  |-> token,
         add    |-> add,
         hasStartPrevDelimiter |-> rem.hasStartPrevDelimiter,
         previousDelimiter     |-> rem.previousDelimiter,
         called |-> IF hasValue /\ CallsBack(a) THEN <<valueCurrent>> ELSE <<>>,
         rm     |-> rem.rm]

-----------------------------------------------------------------------------
(* bufio.Scanner, as far as Scan depends on it. *)

\* s.buf[s.start:s.end]
Data == Slice(scanner.buf, scanner.start, scanner.end)

\* "First, shift data to beginning of buffer if there's lots of empty space
\* or space is needed"
Shift(sc) ==
    IF sc.start > 0 /\ (sc.end = Len(sc.buf) \/ sc.start > Len(sc.buf) \div 2)
    THEN [sc EXCEPT !.buf = Slice(sc.buf, sc.start, sc.end)
                            \o Slice(sc.buf, sc.end - sc.start, Len(sc.buf)),
                    !.end = sc.end - sc.start,
                    !.start = 0]
    ELSE sc

\* "Is the buffer full? If so, resize."
Full(sc) == sc.end = Len(sc.buf)

TooLong(sc) == Full(sc) /\ Len(sc.buf) >= MaxScanTokenSize

NewSize(sc) ==
    LET twice == IF Len(sc.buf) = 0 THEN StartBufSize ELSE 2 * Len(sc.buf)
    IN  IF twice > MaxScanTokenSize THEN MaxScanTokenSize ELSE twice

Resize(sc) ==
    IF Full(sc)
    THEN [sc EXCEPT !.buf = Slice(sc.buf, sc.start, sc.end)
                            \o Zeros(NewSize(sc) - (sc.end - sc.start)),
                    !.end = sc.end - sc.start,
                    !.start = 0]
    ELSE sc

\* values cut from a buffer that is replaced keep the old array's bytes
Detach(values, buf) ==
    [i \in 1..Len(values) |->
        IF values[i].live
        THEN [values[i] EXCEPT !.live = FALSE, !.value = Slice(buf, values[i].lo, values[i].hi)]
        ELSE values[i]]

\* buf with bytes written at offset at, as far as the buffer goes
Write(buf, at, bytes) ==
    [i \in 1..Len(buf) |->
        IF i > at /\ i <= at + Len(bytes) THEN bytes[i - at] ELSE buf[i]]

\* the split function is called with atEOF = (s.err != nil)
Split == ScanByDelimiters(Data, scanner.err # "nil", rd.Delimiters, rd.eof)

CanSplit ==
    /\ pc = "scan"
    /\ scanner.end > scanner.start \/ scanner.err # "nil"

Emit(body) ==
    /\ sink' = Append(sink, [data |-> body.data, atEOF |-> body.atEOF])
    /\ calls' = calls \o [i \in 1..Len(body.called) |->
                            [value |-> body.called[i], chunk |-> Len(sink) + 1]]
    /\ tokens' = Append(tokens, body.token)
    /\ appended' = Append(appended, body.add)
    /\ stripped' = stripped \o [i \in 1..Len(body.rm) |->
                                  [side |-> body.rm[i].side, pair |-> body.rm[i].pair,
                                   chunk |-> Len(sink) + 1]]
    /\ hasStartPrevDelimiter' = body.hasStartPrevDelimiter
    /\ previousDelimiter' = body.previousDelimiter

-----------------------------------------------------------------------------
(* The steps of a run of replaceFilterFunc. *)

\* Scan has no bytes to split, or the split function asked for more: read
Read ==
    /\ \/ pc = "read"
       \/ pc = "scan" /\ scanner.end = scanner.start /\ scanner.err = "nil"
    /\ LET shifted == Shift(scanner)
           sc      == Resize(shifted)
           left    == Len(rd.Reader) - rpos
           room    == Len(sc.buf) - sc.end
       IN  IF TooLong(shifted) THEN
               /\ scanner' = [shifted EXCEPT !.err = "ErrTooLong"]
               /\ pc' = "done"
               /\ UNCHANGED <<rpos, valuesData>>
           ELSE
               /\ valuesData' = IF Full(shifted) THEN Detach(valuesData, shifted.buf)
                                ELSE valuesData
               /\ pc' = "scan"
               /\ \E n \in 0..(IF left < room THEN left ELSE room) :
                  \E err \in {"nil", "EOF"} :
                    /\ n = 0 => err = "EOF"
                    /\ err = "EOF" => n = left
                    /\ rpos' = rpos + n
                    /\ scanner' = [sc EXCEPT
                           !.buf = Write(sc.buf, sc.end, Slice(rd.Reader, rpos, rpos + n)),
                           !.end = sc.end + n,
                           !.err = err]
    /\ UNCHANGED <<rd, args, hasStartPrevDelimiter, previousDelimiter, sink, calls,
                   tokens, appended, located, stripped, run, other>>

\* the split function finds no candidate and the source is not at its end:
\* return 0, nil, nil
NeedMoreData ==
    /\ CanSplit
    /\ Split.kind = "nil"
    /\ scanner.err = "nil"
    /\ pc' = "read"
    /\ UNCHANGED <<rd, rpos, args, scanner, valuesData, hasStartPrevDelimiter,
                   previousDelimiter, sink, calls, tokens, appended, located, stripped,
                   run, other>>

\* the split function returns the closer delimiter's token; the loop body
\* passes a chunk to replacementMapFunc
Match ==
    /\ CanSplit
    /\ Split.kind = "match"
    /\ \E split \in {Split} :
       LET closer == split.closer
           val    == Slice(Data, closer.startIndex, closer.endIndex)
           values == IF Len(val) > 0
                     THEN Append(valuesData,
                                 replacementData(closer.delimiter,
                                                 scanner.start + closer.startIndex,
                                                 scanner.start + closer.endIndex))
                     ELSE valuesData
       IN  \E body \in {loopBody(split.token, values, scanner.buf, args, rd.eof,
                                 hasStartPrevDelimiter, previousDelimiter)} :
           /\ valuesData' = values
           /\ scanner' = [scanner EXCEPT !.start = scanner.start + split.advance]
           /\ located' = Append(located,
                  [delimiter |-> closer.delimiter, value |-> val,
                   at |-> rpos - (scanner.end - scanner.start),
                   from |-> closer.from, startIndex |-> closer.startIndex,
                   endIndex |-> closer.endIndex, early |-> split.early,
                   chunk |-> Len(sink) + 1])
           /\ Emit(body)
    /\ pc' = "scan"
    /\ UNCHANGED <<rd, rpos, args, run, other>>

\* the source is at its end and no candidate is left: the rest of the window,
\* with eof appended, is the last token
Drain ==
    /\ CanSplit
    /\ Split.kind = "drain"
    /\ \E split \in {Split} :
       LET buf == IF scanner.end + Len(rd.eof) <= Len(scanner.buf)
                  THEN Write(scanner.buf, scanner.end, rd.eof)
                  ELSE scanner.buf
       IN  \E body \in {loopBody(split.token, valuesData, buf, args, rd.eof,
                                 hasStartPrevDelimiter, previousDelimiter)} :
           /\ scanner' = [scanner EXCEPT !.buf = buf,
                                         !.start = scanner.start + split.advance]
           /\ Emit(body)
    /\ pc' = "scan"
    /\ UNCHANGED <<rd, rpos, args, valuesData, located, run, other>>

\* the source is at its end and the window is empty: Scan returns false
Finish ==
    /\ CanSplit
    /\ Split.kind = "nil"
    /\ scanner.err # "nil"
    /\ scanner' = [scanner EXCEPT !.start = 0, !.end = 0]
    /\ pc' = "done"
    /\ UNCHANGED <<rd, rpos, args, valuesData, hasStartPrevDelimiter,
                   previousDelimiter, sink, calls, tokens, appended, located, stripped,
                   run, other>>

\* val := data[x1:x2] with x1 > x2: slice bounds out of range
Panic ==
    /\ CanSplit
    /\ Split.kind = "panic"
    /\ pc' = "panic"
    /\ UNCHANGED <<rd, rpos, args, scanner, valuesData, hasStartPrevDelimiter,
                   previousDelimiter, sink, calls, tokens, appended, located, stripped,
                   run, other>>

Next == Read \/ NeedMoreData \/ Match \/ Drain \/ Finish \/ Panic

-----------------------------------------------------------------------------
(* The runs checked: a source, a delimiter list and a public operation. *)

\* all byte slices over alphabet of at most n bytes
Slices(alphabet, n) == UNION { [1..k -> alphabet] : k \in 0..n }

Round    == Delimiter(<<"(">>, <<")">>)
Square   == Delimiter(<<"[">>, <<"]">>)
Long     == Delimiter(<<"a", "b", "a">>, <<"c">>)
Short    == Delimiter(<<"b">>, <<"c">>)
Bar      == Delimiter(<<"|">>, <<"|">>)

Replacement == <<"R">>

AllOperations ==
    {Replace(Replacement)}
    \cup { ReplaceFilter(Replacement, k, p) : k \in KeepCallbacks, p \in BOOLEAN }
    \cup { ReplaceFilterWith(t, p) : t \in TransformCallbacks, p \in BOOLEAN }

SomeOperations ==
    {Replace(Replacement), ReplaceFilter(Replacement, "true", TRUE),
     ReplaceFilterWith("same", TRUE), ReplaceFilterWith("custom", TRUE),
     ReplaceFilterWith("same", FALSE)}

\* delimiter lists, the bytes their sources are made of, the operations run
Scenarios ==
    { [Delimiters |-> <<Round>>, bytes |-> {"a", "(", ")"}, ops |-> AllOperations],
      [Delimiters |-> <<Square, Round>>, bytes |-> {"(", ")", "[", "]"},
       ops |-> SomeOperations],
      [Delimiters |-> <<Long, Short>>, bytes |-> {"a", "b", "c"}, ops |-> SomeOperations],
      [Delimiters |-> <<Bar>>, bytes |-> {"a", "|"}, ops |-> SomeOperations] }

\* New(reader, delimiters) and the start of replaceFilterFunc
New(reader, delimiters) ==
    [Reader |-> reader, Delimiters |-> delimiters, eof |-> getEOFToken]

Start(scenarios) ==
    /\ \E sc \in scenarios :
          /\ \E reader \in Slices(sc.bytes, MaxLen) : rd = New(reader, sc.Delimiters)
          /\ args \in sc.ops
    /\ rpos = 0
    /\ scanner = [buf |-> <<>>, start |-> 0, end |-> 0, err |-> "nil"]
    /\ valuesData = <<>>
    /\ hasStartPrevDelimiter = FALSE
    /\ previousDelimiter = NoDelimiter
    /\ sink = <<>>
    /\ calls = <<>>
    /\ tokens = <<>>
    /\ appended = <<>>
    /\ located = <<>>
    /\ stripped = <<>>
    /\ pc = "scan"
    /\ run = 1
    /\ other = <<>>

Init == Start(Scenarios)

Spec == Init /\ [][Next]_vars

-----------------------------------------------------------------------------
(* What a run did, read off its history. *)

RECURSIVE Flatten(_)
Flatten(chunks) ==
    IF chunks = <<>> THEN <<>> ELSE Head(chunks) \o Flatten(Tail(chunks))

\* the concatenation of all chunks passed to the sink
Output == Flatten([i \in 1..Len(sink) |-> sink[i].data])

Input == rd.Reader

Completed == pc = "done" /\ scanner.err = "EOF"

\* offsets in the source of the i-th matched region: its start delimiter,
\* its captured value, the end of its end delimiter
RegionFrom(i) == located[i].at + located[i].from
ValueFrom(i)  == located[i].at + located[i].startIndex
ValueTo(i)    == located[i].at + located[i].endIndex
RegionTo(i)   == ValueTo(i) + Len(located[i].delimiter.End)

\* the bytes of the source outside all matched regions that precede the i-th
\* region, and those after the last region
LiteralBefore(i) == Slice(Input, IF i = 1 THEN 0 ELSE RegionTo(i - 1), RegionFrom(i))
LiteralAfter ==
    Slice(Input, IF located = <<>> THEN 0 ELSE RegionTo(Len(located)), Len(Input))

\* the source with the i-th region's value replaced by by[i], delimiters kept
ValuesReplaced(by) ==
    Flatten([i \in 1..Len(located) |->
                LiteralBefore(i) \o located[i].delimiter.Start \o by[i]
                \o located[i].delimiter.End])
    \o LiteralAfter

\* the source with the i-th region, delimiters included, replaced by by[i]
RegionsReplaced(by) ==
    Flatten([i \in 1..Len(located) |-> LiteralBefore(i) \o by[i]]) \o LiteralAfter

-----------------------------------------------------------------------------
(* C1: in every run the sink is invoked with atEOF = true exactly once, that
   invocation is the last one of the run and every earlier one has
   atEOF = false, the run over the empty stream included. *)
C1_AtEndExactlyOnce ==
    /\ \A i \in 1..Len(sink) : sink[i].atEOF => i = Len(sink)
    /\ Completed => Len(sink) > 0 /\ sink[Len(sink)].atEOF

(* C2: a source holding no start delimiter followed by its end delimiter is
   passed to the sink unchanged, as a single chunk with atEOF = true, by each
   of the three operations and for both values of preserveDelimiters. *)
NoRegion ==
    \A i \in 1..Len(rd.Delimiters) : ~Candidate(Input, rd.Delimiters[i]).found

C2_NoDelimiterPassThrough ==
    Completed /\ NoRegion => sink = <<[data |-> Input, atEOF |-> TRUE]>>

(* C3: ReplaceFilterWith with preserveDelimiters = true emits the source in
   which the value of every matched region, an empty one included, is replaced
   by transform(value) and nothing else is changed. *)
C3_PreserveReplacesValuesOnly ==
    Completed /\ args.api = "ReplaceFilterWith" /\ args.preserveDelimiters
    => Output = ValuesReplaced([i \in 1..Len(located) |->
                                   Transform(args.callback, located[i].value)])

(* C4: Replace(R, sink) emits the source in which every region found by
   repeated flat leftmost matching (start delimiter, value, end delimiter) is
   replaced by exactly one R, also a region with an empty value and also the
   first region of the stream. *)
\* the leftmost complete region of data: the pair, where it starts and ends
LeftmostRegion(data, delimiters) ==
    LET region(i) ==
            LET del  == delimiters[i]
                from == Index(data, del.Start)
                rest == from + Len(del.Start)
                to   == IF from >= 0 THEN Index(Slice(data, rest, Len(data)), del.End)
                        ELSE -1
            IN  [found |-> Len(del.Start) > 0 /\ Len(del.End) > 0 /\ from >= 0 /\ to >= 0,
                 from |-> from, to |-> rest + to + Len(del.End)]
        found == { i \in 1..Len(delimiters) : region(i).found }
        best  == CHOOSE i \in found :
                    \A j \in found :
                       \/ region(i).from < region(j).from
                       \/ region(i).from = region(j).from /\ i <= j
    IN  IF found = {} THEN [found |-> FALSE] ELSE region(best)

RECURSIVE EveryRegionReplaced(_, _, _)
EveryRegionReplaced(data, delimiters, by) ==
    LET r == LeftmostRegion(data, delimiters)
    IN  IF ~r.found THEN data
        ELSE Slice(data, 0, r.from) \o by
             \o EveryRegionReplaced(Slice(data, r.to, Len(data)), delimiters, by)

C4_ReplaceEveryRegion ==
    Completed /\ args.api = "Replace"
    => Output = EveryRegionReplaced(Input, rd.Delimiters, args.replacement)

(* C5: ReplaceFilter emits, in place of the value of every matched region, R
   when keep(value) is true and the region's own value when it is false; with
   preserveDelimiters = true the delimiters around it are emitted unchanged. *)
Kept(i) ==
    IF Keep(args.callback, located[i].value) THEN args.replacement ELSE located[i].value

C5_FilterDecidesPerRegion ==
    args.api = "ReplaceFilter"
    => /\ \A i \in 1..Len(located) : appended[located[i].chunk] = Kept(i)
       /\ Completed /\ args.preserveDelimiters
          => Output = ValuesReplaced([i \in 1..Len(located) |-> Kept(i)])

(* C6: with preserveDelimiters = false the start and the end delimiter of
   every matched region, whatever its value and its place in the stream, are
   absent from the output: what a chunk holds before the bytes appended for
   its region are literal bytes of the source only, and so is the last
   chunk. *)
\* the chunk of the i-th region without the bytes appended to it
BeforeAppended(i) ==
    LET c == located[i].chunk
    IN  Slice(sink[c].data, 0, Len(sink[c].data) - Len(appended[c]))

C6_DelimitersRemoved ==
    ~args.preserveDelimiters
    => /\ \A i \in 1..Len(located) :
             /\ HasSuffix(sink[located[i].chunk].data, appended[located[i].chunk])
             /\ HasSuffix(LiteralBefore(i), BeforeAppended(i))
       /\ Completed /\ Len(sink) > Len(located)
          => HasSuffix(LiteralAfter, sink[Len(sink)].data)

(* C7: with preserveDelimiters = false every byte of the source outside all
   matched regions appears in the output unchanged and in order: each chunk
   starts with the literal bytes before its region, the last chunk ends with
   the literal bytes after the last region. *)
C7_LiteralBytesKept ==
    ~args.preserveDelimiters
    => /\ \A i \in 1..Len(located) :
             HasPrefix(sink[located[i].chunk].data, LiteralBefore(i))
       /\ Completed /\ Len(sink) > Len(located)
          => HasSuffix(sink[Len(sink)].data, LiteralAfter)

(* C8: the caller's keep / transform callback is invoked exactly once per
   matched region, and never while the final chunk is processed. *)
C8_OneCallbackPerRegion ==
    CallsBack(args)
    => /\ Completed => Len(calls) = Len(located)
       /\ \A i \in 1..Len(calls) : ~sink[calls[i].chunk].atEOF

(* C9: among the candidates of a window the Locator selects the one whose
   start delimiter begins at the smallest offset from, whatever the lengths of
   the start delimiters and the order of the list. *)
C9_LeftmostStartWins ==
    \A i \in 1..Len(located) :
        \A j \in 1..Len(located[i].early) :
            located[i].from <= located[i].early[j].from

(* C10: the output of a run does not depend on how the source delivers the
   input: it is the output of the run that has the whole input in a single
   window. *)
\* the chunks of the run over data held in one window from the start
RECURSIVE SingleWindow(_, _, _, _)
SingleWindow(data, values, has, prev) ==
    LET split == ScanByDelimiters(data, FALSE, rd.Delimiters, rd.eof)
    IN  IF split.kind = "match" THEN
            LET closer == split.closer
                val    == Slice(data, closer.startIndex, closer.endIndex)
                vals   == IF Len(val) > 0
                          THEN Append(values, [delimiter |-> closer.delimiter, lo |-> 0,
                                               hi |-> 0, live |-> FALSE, value |-> val])
                          ELSE values
                body   == loopBody(split.token, vals, <<>>, args, rd.eof, has, prev)
            IN  <<body.data>>
                \o SingleWindow(Slice(data, split.advance, Len(data)), vals,
                                body.hasStartPrevDelimiter, body.previousDelimiter)
        ELSE IF split.kind = "nil" /\ Len(data) > 0 THEN
            <<loopBody(data \o rd.eof, values, <<>>, args, rd.eof, has, prev).data>>
        ELSE <<>>

C10_OutputIndependentOfReads ==
    Completed
    => Output = Flatten(SingleWindow(Input, <<>>, FALSE, NoDelimiter))

-----------------------------------------------------------------------------
(* Runs over sources longer than the scanner's buffer, where the buffer has
   to grow before a match resolves or the source ends. *)

\* longest run of bytes between the head and the tail of a long source
MaxStretch == 9

Stretch(n) == [i \in 1..n |-> "a"]

LongSources ==
    { head \o Stretch(n) \o tail :
        head \in {<<>>, <<"(">>, <<"|">>},
        n \in 0..MaxStretch,
        tail \in {<<>>, <<")">>, <<")", "a">>, <<"|">>} }

LongOperations == {Replace(Replacement), ReplaceFilterWith("same", TRUE)}

\* New(reader, delimiters) and the start of replaceFilterFunc, for given runs
StartWith(sources, delimiters, ops) ==
    /\ \E reader \in sources : rd = New(reader, delimiters)
    /\ args \in ops
    /\ rpos = 0
    /\ scanner = [buf |-> <<>>, start |-> 0, end |-> 0, err |-> "nil"]
    /\ valuesData = <<>>
    /\ hasStartPrevDelimiter = FALSE
    /\ previousDelimiter = NoDelimiter
    /\ sink = <<>>
    /\ calls = <<>>
    /\ tokens = <<>>
    /\ appended = <<>>
    /\ located = <<>>
    /\ stripped = <<>>
    /\ pc = "scan"
    /\ run = 1
    /\ other = <<>>

LongInit == StartWith(LongSources, <<Round, Bar>>, LongOperations)

\* scanner.Scan() is called again as long as it returns true, and each call
\* returns: a step that can be taken is taken
LiveSpec == LongInit /\ [][Next]_vars /\ WF_vars(Next)

(* C11: every run over a finite source ends with the sink having received the
   final chunk, the one with atEOF = true: also the run over the empty source
   and the runs in which the buffer has to grow over several reads before a
   match resolves or the source ends. *)
FinalChunkReceived ==
    pc = "done" /\ Len(sink) > 0 /\ sink[Len(sink)].atEOF

C11_ReachesDone == <>FinalChunkReceived

-----------------------------------------------------------------------------
(* Runs with a pair whose Start or End is empty somewhere in the list. *)

EmptyPairs == {NoDelimiter, Delimiter(<<>>, <<")">>), Delimiter(<<"(">>, <<>>)}

\* list with pair put in after its first k entries
InsertAt(list, k, pair) ==
    SubSeq(list, 1, k) \o <<pair>> \o SubSeq(list, k + 1, Len(list))

EmptyPairLists ==
    { InsertAt(<<Round, Bar>>, k, pair) : k \in 0..2, pair \in EmptyPairs }

EmptyPairSources == LongSources \cup Slices({"(", ")"}, MaxLen)

EmptyPairInit ==
    \E delimiters \in EmptyPairLists :
        StartWith(EmptyPairSources, delimiters, LongOperations)

EmptyPairSpec == EmptyPairInit /\ [][Next]_vars

(* C12: a pair whose Start or End is empty is inert: it is never the pair of
   a match, and with it in the list, at any position, the split function
   returns for every window what it returns for the list without it, so that
   the chunks of the run are those of the run without the pair. *)
IsEmptyPair(del) == Len(del.Start) = 0 \/ Len(del.End) = 0

WithoutEmptyPairs(delimiters) ==
    SelectSeq(delimiters, LAMBDA del : ~IsEmptyPair(del))

C12_EmptyPairInert ==
    /\ \A i \in 1..Len(located) : ~IsEmptyPair(located[i].delimiter)
    /\ \A i \in 1..Len(valuesData) : ~IsEmptyPair(valuesData[i].delimiter)
    /\ CanSplit
       => Split = ScanByDelimiters(Data, scanner.err # "nil",
                                   WithoutEmptyPairs(rd.Delimiters), rd.eof)

\* a completed run with matches whose list holds a pair with an empty Start
\* and an End that occurs in the source
C12_Witness ==
    /\ Completed
    /\ Len(located) > 0
    /\ \E i \in 1..Len(rd.Delimiters) :
          /\ Len(rd.Delimiters[i].Start) = 0
          /\ Len(rd.Delimiters[i].End) > 0
          /\ Index(Input, rd.Delimiters[i].End) >= 0

-----------------------------------------------------------------------------
(* C13: a start delimiter of the source that is never followed by its end
   delimiter, and stands after the last region of the source, starts no
   matched region, raises no error, and the bytes from it to the end of the
   source, the start delimiter included, are the end of the final chunk,
   whatever preserveDelimiters is. *)
\* where the bytes after the last region of data begin, regions being found
\* by repeated flat leftmost matching
RECURSIVE TailStart(_, _)
TailStart(data, delimiters) ==
    LET r == LeftmostRegion(data, delimiters)
    IN  IF ~r.found THEN 0
        ELSE r.to + TailStart(Slice(data, r.to, Len(data)), delimiters)

\* del.Start stands at offset p of the source, outside all regions, and no
\* del.End follows it
UnterminatedAt(p, del) ==
    /\ ~IsEmptyPair(del)
    /\ p + Len(del.Start) <= Len(Input)
    /\ Slice(Input, p, p + Len(del.Start)) = del.Start
    /\ Index(Slice(Input, p + Len(del.Start), Len(Input)), del.End) < 0
    /\ p >= TailStart(Input, rd.Delimiters)

C13_UnterminatedStartIsLiteral ==
    \A p \in 0..(Len(Input) - 1) : \A j \in 1..Len(rd.Delimiters) :
        UnterminatedAt(p, rd.Delimiters[j])
        => /\ pc # "panic"
           /\ \A i \in 1..Len(located) : RegionFrom(i) < p
           /\ pc = "done"
              => /\ FinalChunkReceived
                 /\ HasSuffix(sink[Len(sink)].data, Slice(Input, p, Len(Input)))

-----------------------------------------------------------------------------
(* Runs for what the split function does, whatever the operation: the sources
   and delimiter lists of Scenarios under two operations. *)

LocatorInit == Start({ [sc EXCEPT !.ops = LongOperations] : sc \in Scenarios })

LocatorSpec == LocatorInit /\ [][Next]_vars

-----------------------------------------------------------------------------
(* C14: matching is flat: a matched region runs from the first occurrence of
   its pair's start delimiter in the window to the first occurrence of the
   pair's end delimiter after that start, so the captured value holds no
   occurrence of the pair's end delimiter; it may hold start delimiters. *)
\* the source from the first byte of the window of the i-th match on
WindowFrom(i) == Slice(Input, located[i].at, Len(Input))

C14_FlatMatching ==
    \A i \in 1..Len(located) :
        LET m == located[i]
        IN  /\ m.from = Index(WindowFrom(i), m.delimiter.Start)
            /\ m.startIndex = m.from + Len(m.delimiter.Start)
            /\ m.endIndex - m.startIndex
               = Index(Slice(WindowFrom(i), m.startIndex, Len(WindowFrom(i))),
                       m.delimiter.End)
            /\ m.value = Slice(Input, ValueFrom(i), ValueTo(i))
            /\ Index(m.value, m.delimiter.End) < 0

\* a completed run with a match whose value holds a start delimiter of its pair
C14_Witness ==
    /\ Completed
    /\ \E i \in 1..Len(located) :
          Index(located[i].value, located[i].delimiter.Start) >= 0

-----------------------------------------------------------------------------
(* Replace run a second time, over the output of the first run. *)

\* a new Redel whose Reader delivers the concatenated output of the run that
\* has ended, with the same delimiters and the same operation
RunAgain ==
    /\ Completed
    /\ run = 1
    /\ rd' = New(Output, rd.Delimiters)
    /\ run' = 2
    /\ rpos' = 0
    /\ scanner' = [buf |-> <<>>, start |-> 0, end |-> 0, err |-> "nil"]
    /\ valuesData' = <<>>
    /\ hasStartPrevDelimiter' = FALSE
    /\ previousDelimiter' = NoDelimiter
    /\ sink' = <<>>
    /\ calls' = <<>>
    /\ tokens' = <<>>
    /\ appended' = <<>>
    /\ located' = <<>>
    /\ stripped' = <<>>
    /\ pc' = "scan"
    /\ UNCHANGED <<args, other>>

TwiceNext == Next \/ RunAgain

TwiceInit ==
    Start({ [sc EXCEPT !.ops = {Replace(Replacement), Replace(<<>>)}] : sc \in Scenarios })

TwiceSpec == TwiceInit /\ [][TwiceNext]_vars

(* C15: Replace is idempotent on its own output: for a replacement without
   delimiter bytes, the empty one included, the run of Replace over the
   concatenated output of a run of Replace emits that same output. *)
C15_ReplaceIdempotent ==
    run = 2 /\ Completed => Output = Input

-----------------------------------------------------------------------------
(* Runs over a Reader whose Read can fail. *)

\* rd.Reader.Read returns n bytes, possibly none, and an error other than
\* io.EOF: Scan keeps the bytes and the error
ReadFails ==
    /\ \/ pc = "read"
       \/ pc = "scan" /\ scanner.end = scanner.start /\ scanner.err = "nil"
    /\ ~TooLong(Shift(scanner))
    /\ LET shifted == Shift(scanner)
           sc      == Resize(shifted)
           left    == Len(rd.Reader) - rpos
           room    == Len(sc.buf) - sc.end
       IN  /\ valuesData' = IF Full(shifted) THEN Detach(valuesData, shifted.buf)
                            ELSE valuesData
           /\ \E n \in 0..(IF left < room THEN left ELSE room) :
                /\ rpos' = rpos + n
                /\ scanner' = [sc EXCEPT
                       !.buf = Write(sc.buf, sc.end, Slice(rd.Reader, rpos, rpos + n)),
                       !.end = sc.end + n,
                       !.err = "ErrRead"]
    /\ pc' = "scan"
    /\ UNCHANGED <<rd, args, hasStartPrevDelimiter, previousDelimiter, sink, calls,
                   tokens, appended, located, stripped, run, other>>

FailingNext == Next \/ ReadFails

FailingSpec == LocatorInit /\ [][FailingNext]_vars

(* C16: once a read of the source has failed, the run is over: the sink is
   not invoked again and the caller's callback is not called again, so no
   chunk with atEOF = true is reported for the partly read source. *)
C16_ReadFailureAborts ==
    [][scanner.err = "ErrRead" => sink' = sink /\ calls' = calls]_vars

-----------------------------------------------------------------------------
(* Runs with two pairs of which one ends with the bytes the other starts
   with, besides the runs of LocatorSpec. *)

Left  == Delimiter(<<"(">>, <<"|">>)
Right == Delimiter(<<"|">>, <<")">>)

ChainInit ==
    \/ LocatorInit
    \/ StartWith(Slices({"(", "|", ")"}, MaxLen), <<Left, Right>>, LongOperations)

ChainSpec == ChainInit /\ [][Next]_vars

(* C17: after a match the window is advanced past the whole matched region,
   its end delimiter included: the window scanned next begins at or after the
   end of the end delimiter, and no later region starts within the end
   delimiter of an earlier one. *)
\* offset in the source of the first byte of the window
WindowAt == rpos - (scanner.end - scanner.start)

C17_AdvancePastEndDelimiter ==
    /\ \A i \in 1..Len(located) : pc \in {"scan", "read"} => WindowAt >= RegionTo(i)
    /\ \A i, j \in 1..Len(located) : i < j => RegionFrom(j) >= RegionTo(i)

-----------------------------------------------------------------------------
(* C18: for every candidate the split function records, whatever the
   non-empty Start and End of its pair (End equal to Start, contained in it or
   overlapping it included), from + len(Start) = startIndex <= endIndex <=
   len(window), so that data[startIndex:endIndex] is well defined (no panic),
   and the advance reported for a match is at least 1. *)
C18_OffsetsInOrder ==
    /\ pc # "panic"
    /\ CanSplit
       => /\ \A j \in 1..Len(rd.Delimiters) :
                LET c == Candidate(Data, rd.Delimiters[j])
                IN  c.found
                    => /\ c.startIndex = c.from + Len(rd.Delimiters[j].Start)
                       /\ c.startIndex <= c.endIndex
                       /\ c.endIndex <= Len(Data)
          /\ Split.kind = "match" => Split.advance >= 1

-----------------------------------------------------------------------------
(* C19: the value on which the decision for the chunk of a match is made,
   the argument of the caller's keep / transform, is the value that very
   match captured, an empty one included; the value of an earlier match is
   not used again. *)
C19_ValueOfThisMatch ==
    \A i \in 1..Len(located) : \A k \in 1..Len(calls) :
        calls[k].chunk = located[i].chunk => calls[k].value = located[i].value

-----------------------------------------------------------------------------
(* C20: with preserveDelimiters = false the delimiter tokens removed over the
   run alternate start, end, start, end, ...: a start is removed first or
   after an end, an end after a start, and every removed end is the End of
   the pair whose Start was removed just before it. *)
\* the bytes.Replace calls that removed a token of at least one byte
RemovedTokens ==
    SelectSeq(stripped,
              LAMBDA t : Len(IF t.side = "Start" THEN t.pair.Start ELSE t.pair.End) > 0)

C20_StripsAlternate ==
    \A k \in 1..Len(RemovedTokens) :
        IF k % 2 = 1 THEN RemovedTokens[k].side = "Start"
        ELSE /\ RemovedTokens[k].side = "End"
             /\ RemovedTokens[k].pair = RemovedTokens[k - 1].pair

-----------------------------------------------------------------------------
(* Runs with pairs whose start delimiters begin at the same offset: one Start
   a prefix of the other, or the same Start with another End; besides the
   runs of LocatorSpec. *)

Wide   == Delimiter(<<"a", "b">>, <<"c">>)
Narrow == Delimiter(<<"a">>, <<"c">>)
Other  == Delimiter(<<"a">>, <<"b">>)

TieInit ==
    \/ LocatorInit
    \/ \E delimiters \in {<<Wide, Narrow>>, <<Narrow, Wide>>, <<Narrow, Other>>} :
          StartWith(Slices({"a", "b", "c"}, MaxLen), delimiters, LongOperations)

TieSpec == TieInit /\ [][Next]_vars

(* C21: when candidates of a window have the same offset from, the split
   function keeps the candidate of the pair that comes first in the list,
   also when their start delimiters differ in length. *)
\* the first candidate, in the order of the list, that starts where the
\* i-th match starts
FirstAtFrom(i) ==
    LET early == located[i].early
        k     == Min({ j \in 1..Len(early) : early[j].from = located[i].from })
    IN  early[k]

C21_TieKeepsFirstPair ==
    \A i \in 1..Len(located) : located[i].delimiter = FirstAtFrom(i).delimiter

-----------------------------------------------------------------------------
(* C22: an end delimiter that lies before the first start delimiter of its
   pair in the window never closes a region of that pair: the end delimiter
   of every candidate, and so of every match, stands at or after the offset
   of the start delimiter. *)
C22_EndNotBeforeStart ==
    /\ CanSplit
       => \A j \in 1..Len(rd.Delimiters) :
             LET c == Candidate(Data, rd.Delimiters[j])
             IN  c.found
                 => /\ c.endIndex >= c.from
                    /\ c.endIndex + Len(rd.Delimiters[j].End) <= Len(Data)
                    /\ Slice(Data, c.endIndex, c.endIndex + Len(rd.Delimiters[j].End))
                       = rd.Delimiters[j].End
    /\ \A i \in 1..Len(located) :
          /\ ValueTo(i) >= RegionFrom(i)
          /\ Slice(Input, ValueTo(i), RegionTo(i)) = located[i].delimiter.End

\* a match in a window that holds an end delimiter of the pair before the
\* pair's first start delimiter
C22_Witness ==
    \E i \in 1..Len(located) :
        LET first == Index(WindowFrom(i), located[i].delimiter.End)
        IN  first >= 0 /\ first + Len(located[i].delimiter.End) <= located[i].from

-----------------------------------------------------------------------------
(* C23: every match leads to exactly one invocation of the sink, with a
   non-final chunk made of the token before the match followed by the bytes
   appended for it, and the drain to exactly one, the final one: a completed
   run over a non-empty source invokes the sink (number of matches + 1)
   times, in the order of the source, and a captured value is passed to the
   sink only as the end of the chunk of its match, never in a chunk of its
   own. *)
C23_OneChunkPerMatch ==
    /\ Len(tokens) = Len(sink) /\ Len(appended) = Len(sink)
    /\ Len(located) <= Len(sink) /\ Len(sink) <= Len(located) + 1
    /\ \A i \in 1..Len(located) :
          /\ located[i].chunk = i
          /\ ~sink[i].atEOF
          /\ tokens[i] = Slice(Input, located[i].at, ValueFrom(i))
          /\ i > 1 => located[i].at = ValueTo(i - 1)
          /\ HasSuffix(sink[i].data, appended[i])
          /\ Len(sink[i].data) <= Len(tokens[i]) + Len(appended[i])
          /\ args.preserveDelimiters => sink[i].data = tokens[i] \o appended[i]
    /\ Len(sink) = Len(located) + 1
       => /\ sink[Len(sink)].atEOF
          /\ appended[Len(sink)] = <<>>
          /\ tokens[Len(sink)]
             = Slice(Input, IF located = <<>> THEN 0 ELSE ValueTo(Len(located)),
                     Len(Input)) \o rd.eof
    /\ Completed /\ Input # <<>> => Len(sink) = Len(located) + 1

\* a completed run with two matches or more
C23_Witness == Completed /\ Len(located) >= 2 /\ Len(sink) = Len(located) + 1

-----------------------------------------------------------------------------
(* C24: a step of the split function that finds no candidate in a window that
   is not the last one ("need more data") has no effect: no advance, no
   token, no invocation of the sink or of the caller's callback, the pending
   values and the state of the delimiter stripping unchanged; the only change
   is that the window grows by the bytes of the next read. *)
\* the bytes of the value the loop body would take from valuesData
PendingValue ==
    IF valuesData = <<>> THEN <<>>
    ELSE ValueOf(scanner.buf, valuesData[Len(valuesData)])

C24_NeedMoreDataFrame ==
    [][/\ CanSplit /\ Split.kind = "nil" /\ scanner.err = "nil"
          => /\ pc' = "read"
             /\ UNCHANGED <<rd, rpos, args, scanner, valuesData, hasStartPrevDelimiter,
                            previousDelimiter, sink, calls, tokens, appended, located,
                            stripped>>
       /\ pc = "read"
          => /\ UNCHANGED <<sink, calls, tokens, appended, located, stripped,
                            hasStartPrevDelimiter, previousDelimiter>>
             /\ Len(valuesData') = Len(valuesData)
             /\ PendingValue' = PendingValue
             /\ scanner'.err # "ErrTooLong"
                => Data' = Data \o Slice(rd.Reader, rpos, rpos')]_vars

-----------------------------------------------------------------------------
(* Runs of Replace and of ReplaceFilter with a callback that always answers
   true and preserveDelimiters = false, over the sources and delimiter lists
   of Scenarios. *)

AlwaysTrue == ReplaceFilter(Replacement, "true", FALSE)

EquivOperations == {Replace(Replacement), AlwaysTrue}

EquivInit == Start({ [sc EXCEPT !.ops = EquivOperations] : sc \in Scenarios })

EquivSpec == EquivInit /\ [][Next]_vars

(* C25: Replace(R, sink) and ReplaceFilter(R, sink, keep, false) with a keep
   that always answers true pass the same sequence of (chunk, atEnd) to the
   sink, for every source and delimiter list: at every token of a run of the
   one, the other, from the same state of the scanner, of valuesData and of
   the delimiter stripping, passes the same chunk with the same atEnd and
   leaves the same stripping state; what the scanner and the split function
   do does not depend on the operation. *)
\* the other operation of the two
Counterpart(a) == IF a.api = "Replace" THEN AlwaysTrue ELSE Replace(a.replacement)

\* what the loop body does with the next token under the operation a
NextChunk(a) ==
    LET split == Split
    IN  IF split.kind = "match" THEN
            LET closer == split.closer
                values == IF closer.endIndex > closer.startIndex
                          THEN Append(valuesData,
                                      replacementData(closer.delimiter,
                                                      scanner.start + closer.startIndex,
                                                      scanner.start + closer.endIndex))
                          ELSE valuesData
            IN  loopBody(split.token, values, scanner.buf, a, rd.eof,
                         hasStartPrevDelimiter, previousDelimiter)
        ELSE
            LET buf == IF scanner.end + Len(rd.eof) <= Len(scanner.buf)
                       THEN Write(scanner.buf, scanner.end, rd.eof)
                       ELSE scanner.buf
            IN  loopBody(split.token, valuesData, buf, a, rd.eof,
                         hasStartPrevDelimiter, previousDelimiter)

C25_ReplaceIsFilterTrue ==
    [][Len(sink') > Len(sink)
       => \E twin \in {NextChunk(Counterpart(args))} :
             /\ sink' = Append(sink, [data |-> twin.data, atEOF |-> twin.atEOF])
             /\ hasStartPrevDelimiter' = twin.hasStartPrevDelimiter
             /\ previousDelimiter' = twin.previousDelimiter
             /\ UNCHANGED <<rd, rpos>>]_vars

\* a completed run of ReplaceFilter in which a value was replaced and a
\* delimiter removed
C25_Witness ==
    /\ Completed
    /\ args = AlwaysTrue
    /\ \E i \in 1..Len(located) : appended[i] = Replacement /\ stripped # <<>>

-----------------------------------------------------------------------------
(* C26: with the eof token occurring neither in the source nor in a
   delimiter, a chunk is passed with atEOF = true exactly when its token is
   the one of the drain (the rest of the window at the end of the source, with
   eof appended); that last chunk is the drained window with the eof token
   cut off and no other byte of it missing; and neither a replacement nor a
   value is appended to it. *)
\* eof shares no byte with the source or with a delimiter
NoCollision ==
    LET bytes(s) == { s[i] : i \in 1..Len(s) }
    IN  /\ bytes(rd.eof) \cap bytes(rd.Reader) = {}
        /\ \A j \in 1..Len(rd.Delimiters) :
              bytes(rd.eof) \cap (bytes(rd.Delimiters[j].Start)
                                  \cup bytes(rd.Delimiters[j].End)) = {}

\* the window the drain finds: the source from the advance of the last match
DrainedWindow ==
    Slice(Input, IF located = <<>> THEN 0 ELSE ValueTo(Len(located)), Len(Input))

C26_AtEndOnlyFromDrain ==
    NoCollision
    => \A c \in 1..Len(sink) :
          /\ sink[c].atEOF <=> ~\E i \in 1..Len(located) : located[i].chunk = c
          /\ sink[c].atEOF
             => /\ c = Len(sink)
                /\ tokens[c] = DrainedWindow \o rd.eof
                /\ appended[c] = <<>>
                /\ sink[c].data = DrainedWindow

-----------------------------------------------------------------------------
(* Two calls of replaceFilterFunc at the same time, each on a Redel instance
   of its own: the variables above are those of the call that takes steps, and
   other holds those of the call that waits. *)

\* what a call of replaceFilterFunc owns: its Redel instance, its arguments,
\* its locals, and what its callbacks have received
Locals ==
    [rd |-> rd, rpos |-> rpos, args |-> args, scanner |-> scanner,
     valuesData |-> valuesData, hasStartPrevDelimiter |-> hasStartPrevDelimiter,
     previousDelimiter |-> previousDelimiter, sink |-> sink, calls |-> calls,
     tokens |-> tokens, appended |-> appended, located |-> located,
     stripped |-> stripped, pc |-> pc]

\* a call that can still take a step
Running(call) == call.pc \in {"scan", "read"}

\* the scheduler gives the turn to the other call
Yield ==
    /\ other # <<>>
    /\ Running(other[1])
    /\ rd' = other[1].rd
    /\ rpos' = other[1].rpos
    /\ args' = other[1].args
    /\ scanner' = other[1].scanner
    /\ valuesData' = other[1].valuesData
    /\ hasStartPrevDelimiter' = other[1].hasStartPrevDelimiter
    /\ previousDelimiter' = other[1].previousDelimiter
    /\ sink' = other[1].sink
    /\ calls' = other[1].calls
    /\ tokens' = other[1].tokens
    /\ appended' = other[1].appended
    /\ located' = other[1].located
    /\ stripped' = other[1].stripped
    /\ pc' = other[1].pc
    /\ other' = <<Locals>>
    /\ run' = 3 - run

\* the panic of one call is not recovered: the program ends, and the other
\* call with it
Crash ==
    /\ pc = "panic"
    /\ other # <<>>
    /\ Running(other[1])
    /\ other' = <<[other[1] EXCEPT !.pc = "killed"]>>
    /\ UNCHANGED <<rd, rpos, args, scanner, valuesData, hasStartPrevDelimiter,
                   previousDelimiter, sink, calls, tokens, appended, located, stripped,
                   pc, run>>

PairNext == Next \/ Yield \/ Crash

\* the sources of the first call, with Round, and of the second, with Square
\* and Bar
FirstSources ==
    { <<"(", "a", ")", "b">>, <<"(", "a", ")", "(", "b", ")">>, <<"a", "(">>, <<>> }

SecondSources ==
    { <<"[", "a", "]">>, <<"a", "[", "b", "]", "[", "]">>, <<"a", "|">>, <<"a">> }

PairInit ==
    /\ \E reader \in FirstSources : rd = New(reader, <<Round>>)
    /\ args \in {Replace(Replacement), ReplaceFilterWith("same", FALSE)}
    /\ rpos = 0
    /\ scanner = [buf |-> <<>>, start |-> 0, end |-> 0, err |-> "nil"]
    /\ valuesData = <<>>
    /\ hasStartPrevDelimiter = FALSE
    /\ previousDelimiter = NoDelimiter
    /\ sink = <<>>
    /\ calls = <<>>
    /\ tokens = <<>>
    /\ appended = <<>>
    /\ located = <<>>
    /\ stripped = <<>>
    /\ pc = "scan"
    /\ run = 1
    /\ \E reader \in SecondSources :
          other = <<[rd |-> New(reader, <<Square, Bar>>), rpos |-> 0,
                     args |-> ReplaceFilterWith("same", TRUE),
                     scanner |-> [buf |-> <<>>, start |-> 0, end |-> 0, err |-> "nil"],
                     valuesData |-> <<>>, hasStartPrevDelimiter |-> FALSE,
                     previousDelimiter |-> NoDelimiter, sink |-> <<>>, calls |-> <<>>,
                     tokens |-> <<>>, appended |-> <<>>, located |-> <<>>,
                     stripped |-> <<>>, pc |-> "scan"]>>

PairSpec == PairInit /\ [][PairNext]_vars

(* C27: two runs on different sources share no state that changes: in every
   interleaving of their steps a step of the one run is a step of that run
   alone and leaves the other run as it is, so that each run passes to its
   sink the chunks it passes when it runs alone; and no run changes its
   delimiter list or its eof token. *)
C27_RunsShareNoState ==
    [][/\ run' = run
          => /\ other' = other
             /\ Next
             /\ rd'.Delimiters = rd.Delimiters /\ rd'.eof = rd.eof
       /\ run' # run
          => /\ Locals' = other[1]
             /\ other' = <<Locals>>]_vars

=============================================================================
